---- MODULE Spec2Model ----
(***************************************************************************)
(* Verification model of the Slides Master generation pipeline:            *)
(*   - ImageService  (generateImages / generateImage / generateWithRetry)  *)
(*   - PlanService   (generateBlueprints / parseBlueprints / optimizeLayout)*)
(*   - SummaryService (generateSummary / parseAIResponse)                  *)
(*   - Paper2SlidesPlugin.executePipeline                                  *)
(***************************************************************************)
EXTENDS Integers, Sequences, FiniteSets, TLC

VARIABLES
    \* ---- settings (Paper2SlidesSettings) ----
    autoRetryCount,     \* settings.autoRetryCount
    parallelWorkers,    \* settings.parallelWorkers
    \* ---- ImageService.generateImages activation ----
    requests,           \* the `requests` argument
    parallel,           \* the `parallel` argument
    imgPc,              \* position of generateImages: idle / awaiting / done / threw
    batchI,             \* loop variable `i` (0-based) of the batch loop
    tasks,              \* one generateImage promise per request
    results,            \* the `results` array
    \* ---- PlanService.generateBlueprints activation ----
    length,             \* config.length
    planResponse,       \* text returned by the text backend for the planning prompt
    planPc,             \* position of generateBlueprints: calling / returned / threw
    planError,          \* the error generateBlueprints rejected with ("" = none)
    blueprints          \* the SlideBlueprint[] it resolved to

planVars == <<length, planResponse, planPc, planError, blueprints>>

VARIABLES
    \* ---- SummaryService.generateSummary activation ----
    ragIndex,           \* the RAGIndex argument (its chunks)
    summaryPc,          \* position of generateSummary: idle / calling / returned / threw
    summary,            \* the ContentSummary it resolved to (the planner's argument)
    summaryResponse,    \* text returned by the text backend for the analysis prompt
    estimate,           \* the last estimateSlideCount call: its length and result
    \* ---- Paper2SlidesPlugin.executePipeline activation ----
    showPreviewModal,   \* settings.showPreviewModal
    genImagesSetting,   \* settings.generateImages
    embedInNote,        \* outputConfig.embedInNote
    previewResult,      \* PreviewModal.result {confirmed, regenerate}
    pc,                 \* position of executePipeline
    pipeError,          \* the error executePipeline rejected with ("" = none)
    progress,           \* percentages passed to updateProgress, in order
    textCalls,          \* text-backend calls made so far, per stage
    images,             \* the `images` local of executePipeline
    saved,              \* fileService.saveSlides has been invoked
    embedded            \* fileService.embedInNote has been invoked

sumVars == <<ragIndex, summaryPc, summary, summaryResponse, estimate>>

pipeVars == <<showPreviewModal, genImagesSetting, embedInNote, previewResult, pc, pipeError, progress,
              textCalls, images, saved, embedded>>

VARIABLES
    \* ---- MarkdownParser.parse activation ----
    lines,              \* content.split('\n')
    chunkSize,          \* this.chunkSize
    overlapRatio,       \* this.overlapRatio, in hundredths
    parsePc,            \* position of parse: idle / test / body / returned
    parseI,             \* the loop variable i
    chunkIndex,         \* the chunkIndex local
    chunks              \* the `chunks` array

parseVars == <<lines, chunkSize, overlapRatio, parsePc, parseI, chunkIndex, chunks>>

VARIABLES
    \* ---- RAGService ----
    svcChunks,          \* this.chunks
    svcIndex,           \* this.index (isNull = TRUE for null)
    query,              \* the query of that search, as its words
    topK,               \* the topK of that search
    searchPc,           \* returned: the last operation was a search; else idle
    searchResult        \* what that search returned

ragVars == <<svcChunks, svcIndex, query, topK, searchPc, searchResult>>

\* the state of the document services
docVars == <<parseVars, ragVars>>

VARIABLES
    \* ---- Paper2SlidesPlugin.generateSlides ----
    isGenerating,           \* this.isGenerating
    progressModal,          \* this.progressModal: 0 for null, else the invocation that made it
    openProgressModals,     \* the progress modals that are open, by the invocation that made them
    showQuickOptionsModal,  \* settings.showQuickOptionsModal
    showProgressModal,      \* settings.showProgressModal
    settingsValid,          \* AIProviderFactory.validateSettings(settings).valid
    inv                     \* the generateSlides invocations: position, outcome, dialogs

genVars == <<isGenerating, progressModal, openProgressModals, showQuickOptionsModal,
             showProgressModal, settingsValid, inv>>

VARIABLES
    \* ---- Paper2SlidesPlugin.executeWithRetry activation ----
    retryMax,           \* the maxRetries argument
    retryPc,            \* position: idle / calling / sleeping / returned / threw
    retryAttempt,       \* attempt
    retryLastError,     \* lastError: 0 for null, else the call that threw it
    retryOps,           \* the operation's invocations so far: "pending", "resolved", "rejected"
    retrySleeps,        \* the delays slept so far, in ms
    retryResult         \* what executeWithRetry settled with

retryVars == <<retryMax, retryPc, retryAttempt, retryLastError, retryOps, retrySleeps,
               retryResult>>

vars == <<autoRetryCount, parallelWorkers, requests, parallel, imgPc, batchI, tasks, results,
          length, planResponse, planPc, planError, blueprints,
          ragIndex, summaryPc, summary, summaryResponse, estimate,
          showPreviewModal, genImagesSetting, embedInNote, previewResult, pc, pipeError,
          progress, textCalls, images, saved, embedded,
          lines, chunkSize, overlapRatio, parsePc, parseI, chunkIndex, chunks,
          svcChunks, svcIndex, query, topK, searchPc, searchResult,
          isGenerating, progressModal, openProgressModals, showQuickOptionsModal,
          showProgressModal, settingsValid, inv,
          retryMax, retryPc, retryAttempt, retryLastError, retryOps, retrySleeps, retryResult>>

imgVars == <<autoRetryCount, parallelWorkers, requests, parallel, imgPc, batchI, tasks, results>>

-----------------------------------------------------------------------------
(* Bounds *)
MaxRequests == 3        \* longest request list explored
MaxAutoRetry == 2       \* autoRetryCount explored in 0..MaxAutoRetry (slider allows 0..5)
MaxWorkers == 2         \* parallelWorkers explored in 1..MaxWorkers (slider allows 1..4)

(* Program constants *)
DefaultMaxRetries == 3  \* `this.settings.autoRetryCount || 3`
DefaultWorkers == 3     \* `this.settings.parallelWorkers || 3`

Min(a, b) == IF a < b THEN a ELSE b
Max(a, b) == IF a > b THEN a ELSE b

RECURSIVE Pow2(_)
Pow2(n) == IF n <= 0 THEN 1 ELSE 2 * Pow2(n - 1)

\* Sequences over S of length 0..n
SeqsUpTo(S, n) == UNION {[1..k -> S] : k \in 0..n}

-----------------------------------------------------------------------------
(* ImageService *)

\* mime types an image backend response can carry: one that differs from the
\* default, and "" for an absent field (defaulted to image/png)
BackendMimeTypes == {"image/jpeg", ""}

PlaceholderMime == "image/svg+xml"

\* const maxRetries = this.settings.autoRetryCount || 3
maxRetries == IF autoRetryCount # 0 THEN autoRetryCount ELSE DefaultMaxRetries

\* const workers = this.settings.parallelWorkers || 3
workers == IF parallelWorkers # 0 THEN parallelWorkers ELSE DefaultWorkers

\* advance of the request cursor per round: a batch of `workers`, or one request
stride == IF parallel THEN workers ELSE 1

NoResult == [slideNumber |-> 0, mimeType |-> "none", retryCount |-> 0]

PendingTask == [st |-> "pending", retryCount |-> 0, calls |-> 0, sleepMs |-> 0, result |-> NoResult]

\* the success return of generateWithRetry
imageResult(request, mime, retryCount) ==
    [slideNumber |-> request.slideNumber,
     mimeType |-> IF mime # "" THEN mime ELSE "image/png",
     retryCount |-> retryCount]

\* generatePlaceholder(request, retryCount)
generatePlaceholder(request, retryCount) ==
    [slideNumber |-> request.slideNumber,
     mimeType |-> PlaceholderMime,
     retryCount |-> retryCount]

\* variant: the retry test lets one attempt too many through
onBackendFailure_OffByOne(retryCount) ==
    IF retryCount <= maxRetries THEN "retry" ELSE "placeholder"

\* the catch block of generateWithRetry: what a backend failure leads to
onBackendFailure(retryCount) ==
    IF retryCount < maxRetries THEN "retry" ELSE "placeholder"

\* generateImage(req) = generateWithRetry(req, 0), run up to its first await:
\* the backend call is in flight
generateImage(t) == [t EXCEPT !.st = "calling", !.retryCount = 0, !.calls = 1]

\* Array.prototype.slice's reading of an index k over an array of length n
sliceIndex(k, n) == IF k < 0 THEN Max(n + k, 0) ELSE Min(k, n)

\* indices (1-based) of requests.slice(i, i + stride), the requests of the
\* round starting at cursor i
batchIndices(i) ==
    {j \in 1..Len(requests) :
        sliceIndex(i, Len(requests)) < j /\ j <= sliceIndex(i + stride, Len(requests))}

\* the cursor after i += stride. At or below -requests.length every slice is
\* empty and every later round is the same: the cursor is kept there.
nextCursor(i) == Max(i + stride, 0 - Len(requests))

\* variant: the round is taken as settled as soon as one request is
batchSettled_Any(i) ==
    \E j \in batchIndices(i) : tasks[j].st \in {"fulfilled", "rejected"}

\* Promise.all(batch.map(...)) settles: all fulfilled, or one rejected
batchSettled(i) ==
    \/ \A j \in batchIndices(i) : tasks[j].st = "fulfilled"
    \/ \E j \in batchIndices(i) : tasks[j].st = "rejected"

\* variant: the results of a round are pushed in reverse order
batchResults_Reversed(i) ==
    [k \in 1..Cardinality(batchIndices(i)) |->
        tasks[sliceIndex(i, Len(requests)) + Cardinality(batchIndices(i)) + 1 - k].result]

\* results.push(...batchResults): results of the round in batch order
batchResults(i) ==
    [k \in 1..Cardinality(batchIndices(i)) |-> tasks[sliceIndex(i, Len(requests)) + k].result]

\* entry of generateImages(reqs, par): runs until the first await, or returns
\* at once when there is nothing to do
startGenerateImages(reqs, par) ==
    /\ requests' = reqs
    /\ parallel' = par
    /\ batchI' = 0
    /\ results' = << >>
    /\ LET w == IF par THEN workers ELSE 1
       IN  IF Len(reqs) > 0
           THEN /\ imgPc' = "awaiting"
                /\ tasks' = [j \in 1..Len(reqs) |->
                               IF j <= sliceIndex(w, Len(reqs))
                               THEN generateImage(PendingTask) ELSE PendingTask]
           ELSE /\ imgPc' = "done"
                /\ tasks' = << >>

\* a caller invokes generateImages(requests, parallel)
GenerateImages ==
    /\ imgPc = "idle"
    /\ startGenerateImages(requests, parallel)
    /\ UNCHANGED <<autoRetryCount, parallelWorkers>>

\* the image backend answers the call of request j with an image
BackendReturns(j, mime) ==
    /\ imgPc = "awaiting"
    /\ tasks[j].st = "calling"
    /\ tasks' = [tasks EXCEPT ![j].st = "fulfilled",
                              ![j].result = imageResult(requests[j], mime, tasks[j].retryCount)]
    /\ UNCHANGED <<autoRetryCount, parallelWorkers, requests, parallel, imgPc, batchI, results>>

\* the image backend call of request j fails: catch block of generateWithRetry
BackendFails(j) ==
    /\ imgPc = "awaiting"
    /\ tasks[j].st = "calling"
    /\ LET t == tasks[j]
           o == onBackendFailure(t.retryCount)
       IN  tasks' = [tasks EXCEPT
              ![j] = IF o = "retry"
                     THEN [t EXCEPT !.st = "sleeping",
                                    !.sleepMs = Pow2(t.retryCount) * 1000]
                     ELSE IF o = "placeholder"
                     THEN [t EXCEPT !.st = "fulfilled",
                                    !.result = generatePlaceholder(requests[j], t.retryCount)]
                     ELSE [t EXCEPT !.st = "rejected"]]
    /\ UNCHANGED <<autoRetryCount, parallelWorkers, requests, parallel, imgPc, batchI, results>>

\* the backoff sleep of request j ends: generateWithRetry(request, retryCount + 1)
SleepElapsed(j) ==
    /\ imgPc = "awaiting"
    /\ tasks[j].st = "sleeping"
    /\ tasks' = [tasks EXCEPT ![j].st = "calling",
                              ![j].retryCount = @ + 1,
                              ![j].calls = @ + 1,
                              ![j].sleepMs = 0]
    /\ UNCHANGED <<autoRetryCount, parallelWorkers, requests, parallel, imgPc, batchI, results>>

\* the await of the current round resumes: push the results, advance the
\* cursor, and dispatch the next round or return
imagesResume ==
    IF \E j \in batchIndices(batchI) : tasks[j].st = "rejected"
    THEN /\ imgPc' = "threw"
         /\ UNCHANGED <<batchI, tasks, results>>
    ELSE LET i2 == nextCursor(batchI)
             res2 == results \o batchResults(batchI)
         IN  /\ results' = res2
             /\ batchI' = i2
             /\ IF i2 < Len(requests)
                THEN /\ imgPc' = "awaiting"
                     /\ tasks' = [j \in 1..Len(requests) |->
                                    IF j \in batchIndices(i2)
                                    THEN generateImage(tasks[j]) ELSE tasks[j]]
                ELSE /\ imgPc' = "done"
                     /\ tasks' = tasks

BatchResumes ==
    /\ imgPc = "awaiting"
    /\ batchSettled(batchI)
    /\ imagesResume
    /\ UNCHANGED <<autoRetryCount, parallelWorkers, requests, parallel>>

\* the loop of generateImages in two steps. First the await of the round
\* resumes: results.push(...batchResults) and i += workers
BatchPush ==
    /\ imgPc = "awaiting"
    /\ batchSettled(batchI)
    /\ IF \E j \in batchIndices(batchI) : tasks[j].st = "rejected"
       THEN /\ imgPc' = "threw"
            /\ UNCHANGED <<batchI, results>>
       ELSE /\ results' = results \o batchResults(batchI)
            /\ batchI' = nextCursor(batchI)
            /\ imgPc' = "test"
    /\ UNCHANGED <<autoRetryCount, parallelWorkers, requests, parallel, tasks>>

\* then the loop test i < requests.length: the next round is dispatched, or
\* generateImages returns
BatchTest ==
    /\ imgPc = "test"
    /\ IF batchI < Len(requests)
       THEN /\ imgPc' = "awaiting"
            /\ tasks' = [j \in 1..Len(requests) |->
                           IF j \in batchIndices(batchI)
                           THEN generateImage(tasks[j]) ELSE tasks[j]]
       ELSE /\ imgPc' = "done"
            /\ tasks' = tasks
    /\ UNCHANGED <<autoRetryCount, parallelWorkers, requests, parallel, batchI, results>>

ImageBackendStep ==
    \/ \E j \in 1..Len(requests), mime \in BackendMimeTypes : BackendReturns(j, mime)
    \/ \E j \in 1..Len(requests) : BackendFails(j)
    \/ \E j \in 1..Len(requests) : SleepElapsed(j)

-----------------------------------------------------------------------------
(* PlanService *)

MaxItems == 3           \* longest JSON array in a planner response explored

LayoutTypes == {"title", "content", "two-column", "image-focus", "quote", "comparison"}

SlideLengths == {"short", "medium", "long"}

\* a line of content.text as the planner response carries it: a string of
\* some length, or JSON null
StrLine(n) == [kind |-> "string", len |-> n]
NullLine == [kind |-> "null", len |-> 0]

\* JSON null as an array entry
NullItem ==
    [isNull |-> TRUE, title |-> "", snIsNumber |-> FALSE, slideNumber |-> 0, layout |-> "",
     text |-> << >>, images |-> 0, tables |-> 0, code |-> 0, imagePrompt |-> ""]

Item(title, isNum, sn, layout, text, imgs, tbls, code, prompt) ==
    [isNull |-> FALSE, title |-> title, snIsNumber |-> isNum, slideNumber |-> sn,
     layout |-> layout, text |-> text, images |-> imgs, tables |-> tbls,
     code |-> code, imagePrompt |-> prompt]

\* content shapes explored: <<text, images, tables, code, imagePrompt>>
ItemShapes ==
    { << << >>, 0, 0, 0, "" >>,
      << <<NullLine>>, 0, 0, 0, "" >>,
      << <<StrLine(20)>>, 1, 0, 0, "" >>,
      << <<StrLine(20), StrLine(20)>>, 0, 0, 0, "prompt" >> }

\* array entries explored: every layout/shape combination as slide 1, some
\* of them as slide 2 as well, and the unusable entries
ResponseItems ==
    {NullItem,
     Item("", TRUE, 1, "content", << >>, 0, 0, 0, ""),
     Item("T", FALSE, 0, "content", << >>, 0, 0, 0, ""),
     Item("T", TRUE, 1, "bogus", <<StrLine(51)>>, 0, 0, 0, ""),
     Item("T", TRUE, 1, "content", <<StrLine(51)>>, 0, 0, 1, ""),
     Item("T", TRUE, 2, "title", << >>, 0, 0, 0, ""),
     Item("T", TRUE, 2, "content", <<NullLine>>, 0, 0, 0, ""),
     Item("T", TRUE, 2, "image-focus", <<StrLine(20), StrLine(20)>>, 0, 0, 0, "prompt")}
    \cup
    {Item("T", TRUE, 1, l, sh[1], sh[2], sh[3], sh[4], sh[5]) :
        l \in {"title", "content", "image-focus"}, sh \in ItemShapes}

\* responses of the text backend to the planning prompt
NoJson == [kind |-> "nojson", items |-> << >>]
InvalidJson == [kind |-> "invalid", items |-> << >>]
JsonArray(items) == [kind |-> "array", items |-> items]

\* entries explored ahead of the last two of an array: a plain slide, one the
\* filter drops, one with an image and one asking for layout title
LeadItems ==
    {Item("T", TRUE, 1, "content", << >>, 0, 0, 0, ""),
     Item("", TRUE, 1, "content", << >>, 0, 0, 0, ""),
     Item("T", TRUE, 1, "image-focus", <<StrLine(20)>>, 1, 0, 0, ""),
     Item("T", TRUE, 2, "title", << >>, 0, 0, 0, "")}

\* arrays explored: every entry in the last two places, the lead entries ahead
ResponseArrays ==
    UNION {{lead \o tl : lead \in [1..k -> LeadItems], tl \in SeqsUpTo(ResponseItems, 2)} :
              k \in 0..(MaxItems - 2)}

PlanResponses ==
    {NoJson, InvalidJson} \cup {JsonArray(items) : items \in ResponseArrays}

Blueprint(sn, title, layout, text, imgs, tbls, code, prompt) ==
    [slideNumber |-> sn, title |-> title, layout |-> layout,
     content |-> [text |-> text, images |-> imgs, tables |-> tbls, code |-> code],
     imagePrompt |-> prompt]

\* Math.floor(baseCount * 0.7) in double arithmetic. The double nearest 0.7
\* lies below 0.7: of the values explored, the product falls just under the
\* integer 63 for baseCount = 90 and floors to 62; for the others the floor
\* is that of the exact product.
floorTimes07(baseCount) ==
    IF baseCount = 90 THEN 62 ELSE (baseCount * 7) \div 10

\* Math.floor(baseCount * 1.3) in double arithmetic: the double nearest 1.3
\* lies above 1.3 and the floor is that of the exact product for the values
\* explored
floorTimes13(baseCount) == (baseCount * 13) \div 10

\* variant: the medium bucket is capped at 25
calculateTargetCount_MediumWide(sum, len) ==
    LET base == sum.suggestedSlideCount
    IN  CASE len = "short" -> Max(5, Min(10, floorTimes07(base)))
          [] len = "medium" -> Max(10, Min(25, base))
          [] len = "long" -> Max(15, Min(25, floorTimes13(base)))
          [] OTHER -> base

\* calculateTargetCount(summary, length)
calculateTargetCount(sum, len) ==
    LET base == sum.suggestedSlideCount
    IN  CASE len = "short" -> Max(5, Min(10, floorTimes07(base)))
          [] len = "medium" -> Max(10, Min(15, base))
          [] len = "long" -> Max(15, Min(25, floorTimes13(base)))
          [] OTHER -> base

\* validateLayout(layout)
validateLayout(layout) == IF layout \in LayoutTypes THEN layout ELSE "content"

\* generateFallbackBlueprints(count)
generateFallbackBlueprints(count) ==
    [i \in 1..Max(1, count) |->
        IF i = 1
        THEN Blueprint(1, "Presentation Title", "title",
                       <<StrLine(8), StrLine(4)>>, 0, 0, 0, "")
        ELSE Blueprint(i, "Section", "content",
                       <<StrLine(11), StrLine(11), StrLine(11)>>, 0, 0, 0, "")]

\* the .filter() predicate of parseBlueprints
itemUsable(item) == item.title # "" /\ item.snIsNumber

\* the .map() callback of parseBlueprints
itemToBlueprint(item) ==
    Blueprint(item.slideNumber, item.title, validateLayout(item.layout),
              item.text, item.images, item.tables, item.code, item.imagePrompt)

RECURSIVE FilterMap(_)
FilterMap(items) ==
    IF items = << >> THEN << >>
    ELSE IF itemUsable(Head(items))
         THEN <<itemToBlueprint(Head(items))>> \o FilterMap(Tail(items))
         ELSE FilterMap(Tail(items))

\* the try block of parseBlueprints: the blueprints, or the exception thrown
\* (item.title of a null entry is a TypeError)
parseBlueprintsTry(resp) ==
    IF resp.kind = "nojson" THEN [threw |-> TRUE, value |-> << >>]
    ELSE IF resp.kind = "invalid" THEN [threw |-> TRUE, value |-> << >>]
    ELSE IF \E k \in 1..Len(resp.items) : resp.items[k].isNull
         THEN [threw |-> TRUE, value |-> << >>]
         ELSE [threw |-> FALSE, value |-> FilterMap(resp.items)]

\* parseBlueprints(responseText, targetCount)
parseBlueprints(resp, targetCount) ==
    LET r == parseBlueprintsTry(resp)
    IN  IF r.threw THEN generateFallbackBlueprints(targetCount) ELSE r.value

\* variant: the quote test comes before the code test
suggestLayout_QuoteBeforeCode(bp) ==
    LET textCount == Len(bp.content.text)
        hasImages == bp.content.images > 0
        hasTables == bp.content.tables > 0
        hasCode == bp.content.code > 0
    IN  IF hasImages /\ textCount <= 2 THEN "image-focus"
        ELSE IF hasTables \/ textCount = 2 THEN "two-column"
        ELSE IF textCount = 1
             THEN IF bp.content.text[1].kind = "null" THEN "TypeError"
                  ELSE IF bp.content.text[1].len > 50 THEN "quote" ELSE "content"
        ELSE "content"

\* suggestLayout(blueprint): the layout, or "TypeError" when text[0].length
\* is read from a null line
suggestLayout(bp) ==
    LET textCount == Len(bp.content.text)
        hasImages == bp.content.images > 0
        hasTables == bp.content.tables > 0
        hasCode == bp.content.code > 0
    IN  IF hasImages /\ textCount <= 2 THEN "image-focus"
        ELSE IF hasTables \/ textCount = 2 THEN "two-column"
        ELSE IF hasCode THEN "content"
        ELSE IF textCount = 1
             THEN IF bp.content.text[1].kind = "null" THEN "TypeError"
                  ELSE IF bp.content.text[1].len > 50 THEN "quote" ELSE "content"
        ELSE "content"

\* generateImagePrompt(blueprint)
generateImagePrompt(bp) == "generated"

\* variant: the last-slide test compares against the length, so never fires
optimizeOne_LastOffByOne(bp, index, n) ==
    LET b1 == IF index = 0 THEN [bp EXCEPT !.layout = "title"] ELSE bp
        b2 == IF index = n
              THEN [b1 EXCEPT !.layout = "content",
                              !.title = IF b1.title # "" THEN b1.title ELSE "Summary"]
              ELSE b1
        b3 == IF b2.layout = "" \/ b2.layout = "content"
              THEN [b2 EXCEPT !.layout = suggestLayout(b2)]
              ELSE b2
        b4 == IF b3.layout = "image-focus" /\ b3.imagePrompt = ""
              THEN [b3 EXCEPT !.imagePrompt = generateImagePrompt(b3)]
              ELSE b3
    IN  b4

\* the .map() callback of optimizeLayout, applied to the blueprint at 0-based
\* position index of an array of n
optimizeOne(bp, index, n) ==
    LET b1 == IF index = 0 THEN [bp EXCEPT !.layout = "title"] ELSE bp
        b2 == IF index = n - 1
              THEN [b1 EXCEPT !.layout = "content",
                              !.title = IF b1.title # "" THEN b1.title ELSE "Summary"]
              ELSE b1
        b3 == IF b2.layout = "" \/ b2.layout = "content"
              THEN [b2 EXCEPT !.layout = suggestLayout(b2)]
              ELSE b2
        b4 == IF b3.layout = "image-focus" /\ b3.imagePrompt = ""
              THEN [b3 EXCEPT !.imagePrompt = generateImagePrompt(b3)]
              ELSE b3
    IN  b4

\* optimizeLayout(blueprints): the optimized array, or the TypeError thrown
optimizeLayout(bps) ==
    LET out == [k \in 1..Len(bps) |-> optimizeOne(bps[k], k - 1, Len(bps))]
    IN  IF \E k \in 1..Len(bps) : out[k].layout = "TypeError"
        THEN [threw |-> TRUE, value |-> << >>]
        ELSE [threw |-> FALSE, value |-> out]

\* generateBlueprints(summary, config) after the backend returned resp
generateBlueprints(sum, len, resp) ==
    optimizeLayout(parseBlueprints(resp, calculateTargetCount(sum, len)))

\* the text backend answers the planning prompt
PlanBackendReturns(resp) ==
    /\ planPc = "calling"
    /\ planResponse' = resp
    /\ LET r == generateBlueprints(summary, length, resp)
       IN  /\ planPc' = IF r.threw THEN "threw" ELSE "returned"
           /\ planError' = IF r.threw THEN "TypeError" ELSE ""
           /\ blueprints' = r.value
    /\ UNCHANGED length

\* the text backend fails the planning call: generateBlueprints rejects
PlanBackendFails ==
    /\ planPc = "calling"
    /\ planPc' = "threw"
    /\ planError' = "ProviderError"
    /\ UNCHANGED <<length, planResponse, blueprints>>

-----------------------------------------------------------------------------
(* SummaryService *)

\* a chunk of the index, by the number of pieces content.split(/\s+/) yields
Chunk(words) == [words |-> words]

\* an entry of an outline array in the summarizer response
NullSection == [isNull |-> TRUE, title |-> "", levelIsNumber |-> FALSE, subs |-> << >>]
Section(title, levelIsNumber, subs) ==
    [isNull |-> FALSE, title |-> title, levelIsNumber |-> levelIsNumber, subs |-> subs]

\* responses of the text backend to the analysis prompt
NoJsonS == [kind |-> "nojson"]
InvalidJsonS == [kind |-> "invalid"]
JsonObject(sscIsNumber, ssc, edIsNumber, ed, outlineIsArray, outline) ==
    [kind |-> "object", sscIsNumber |-> sscIsNumber, ssc |-> ssc,
     edIsNumber |-> edIsNumber, ed |-> ed,
     outlineIsArray |-> outlineIsArray, outline |-> outline]

\* Math.ceil(a / b) for b > 0
CeilDiv(a, b) == -((-a) \div b)

SumWords(idx) ==
    LET RECURSIVE Go(_)
        Go(k) == IF k = 0 THEN 0 ELSE idx[k].words + Go(k - 1)
    IN  Go(Len(idx))

\* variant: the lower clamp is missing
fallbackSlideCount_NoFloor(idx) == Min(25, CeilDiv(SumWords(idx), 200))

\* fallbackSlideCount(ragIndex)
fallbackSlideCount(idx) == Max(5, Min(25, CeilDiv(SumWords(idx), 200)))

\* generateFallbackSummary(ragIndex)
generateFallbackSummary(idx) ==
    LET slideCount == fallbackSlideCount(idx)
    IN  [suggestedSlideCount |-> slideCount,
         estimatedDuration |-> CeilDiv(slideCount * 3, 2),
         outlineLen |-> 0]

\* validateOutline(outline): number of sections kept, or the TypeError thrown
\* when section.title is read from a null entry
validateOutline(outline) ==
    IF \E k \in 1..Len(outline) : outline[k].isNull
    THEN [threw |-> TRUE, value |-> 0]
    ELSE LET kept == SelectSeq(outline, LAMBDA sec : sec.title # "" /\ sec.levelIsNumber)
         IN  IF \E k \in 1..Len(kept) : \E m \in 1..Len(kept[k].subs) : kept[k].subs[m].isNull
             THEN [threw |-> TRUE, value |-> 0]
             ELSE [threw |-> FALSE, value |-> Len(kept)]

\* the try block of parseAIResponse
parseAIResponseTry(resp, idx) ==
    IF resp.kind # "object" THEN [threw |-> TRUE, value |-> generateFallbackSummary(idx)]
    ELSE LET o == IF resp.outlineIsArray THEN validateOutline(resp.outline)
                  ELSE [threw |-> FALSE, value |-> 0]
             ssc == IF resp.sscIsNumber THEN resp.ssc ELSE fallbackSlideCount(idx)
             ed == IF resp.edIsNumber THEN resp.ed
                   ELSE CeilDiv((IF resp.sscIsNumber /\ resp.ssc # 0 THEN resp.ssc ELSE 10) * 3, 2)
         IN  [threw |-> o.threw,
              value |-> [suggestedSlideCount |-> ssc, estimatedDuration |-> ed,
                         outlineLen |-> o.value]]

\* parseAIResponse(responseText, ragIndex)
parseAIResponse(resp, idx) ==
    LET r == parseAIResponseTry(resp, idx)
    IN  IF r.threw THEN generateFallbackSummary(idx) ELSE r.value

NoSummary == [suggestedSlideCount |-> 0, estimatedDuration |-> 0, outlineLen |-> 0]

MaxBase == 20           \* suggestedSlideCount explored in 1..MaxBase, and the values below

\* suggestedSlideCount values a response can carry: negative, zero, every
\* small count, and large ones
SlideCounts == {-1000000, -10, -1, 0, 90, 1000000} \cup (1..MaxBase)

\* variant: the short bucket is not capped at 10
estimateSlideCount_ShortUncapped(sum, len) ==
    LET baseCount == sum.suggestedSlideCount
    IN  CASE len = "short" -> Max(5, floorTimes07(baseCount))
          [] len = "medium" -> Max(10, Min(15, baseCount))
          [] len = "long" -> Max(15, Min(25, floorTimes13(baseCount)))

\* estimateSlideCount(summary, length)
estimateSlideCount(sum, len) ==
    LET baseCount == sum.suggestedSlideCount
    IN  CASE len = "short" -> Max(5, Min(10, floorTimes07(baseCount)))
          [] len = "medium" -> Max(10, Min(15, baseCount))
          [] len = "long" -> Max(15, Min(25, floorTimes13(baseCount)))

NoEstimate == [length |-> "none", count |-> 0]

\* the text backend answers the analysis prompt
SummaryBackendReturns(resp) ==
    /\ summaryPc = "calling"
    /\ summaryResponse' = resp
    /\ summary' = parseAIResponse(resp, ragIndex)
    /\ summaryPc' = "returned"
    /\ UNCHANGED <<ragIndex, estimate>>

\* the text backend fails the analysis call: generateSummary rejects
SummaryBackendFails ==
    /\ summaryPc = "calling"
    /\ summaryPc' = "threw"
    /\ UNCHANGED <<ragIndex, summary, summaryResponse, estimate>>

\* a caller invokes estimateSlideCount(summary, len) on the summary obtained
EstimateSlideCount(len) ==
    /\ summaryPc = "returned"
    /\ estimate' = [length |-> len, count |-> estimateSlideCount(summary, len)]
    /\ UNCHANGED <<ragIndex, summaryPc, summary, summaryResponse>>

-----------------------------------------------------------------------------
(* Paper2SlidesPlugin.executePipeline *)

\* inputs explored in pipeline runs
PipeIndexes == {<<Chunk(150)>>, <<Chunk(700), Chunk(700)>>}

PipeSummaryResponses ==
    {NoJsonS,
     JsonObject(TRUE, 12, TRUE, 18, TRUE, <<Section("Intro", TRUE, << >>)>>),
     JsonObject(FALSE, 0, FALSE, 0, TRUE, <<Section("Intro", TRUE, <<NullSection>>)>>)}

PipeItems ==
    {Item("T", TRUE, 1, "title", <<StrLine(20), StrLine(20)>>, 0, 0, 0, "prompt"),
     Item("T", TRUE, 2, "content", <<StrLine(20)>>, 1, 0, 0, ""),
     Item("T", TRUE, 2, "content", <<NullLine>>, 0, 0, 0, ""),
     Item("T", TRUE, 3, "quote", <<StrLine(60)>>, 0, 0, 0, "")}

PipePlanResponses == {NoJson} \cup {JsonArray(items) : items \in SeqsUpTo(PipeItems, 2)}

PipeLengths == {"short"}

\* variant: a request is built for every blueprint
imageRequests_All(bps) ==
    [k \in 1..Len(bps) |-> [slideNumber |-> bps[k].slideNumber]]

\* blueprints.filter(bp => bp.imagePrompt).map(bp => ({ slideNumber: bp.slideNumber, ... }))
imageRequests(bps) ==
    LET withPrompt == SelectSeq(bps, LAMBDA bp : bp.imagePrompt # "")
    IN  [k \in 1..Len(withPrompt) |-> [slideNumber |-> withPrompt[k].slideNumber]]

\* variant: completion is reported together with the start of the file output
startSave_CompleteEarly(prog, imgs) ==
    /\ progress' = prog \o <<90, 100>>
    /\ images' = imgs
    /\ saved' = "invoked"
    /\ pc' = "saving"

\* executePipeline from the "Final Stage" on, up to the await of saveSlides
startSave(prog, imgs) ==
    /\ progress' = prog \o <<90>>
    /\ images' = imgs
    /\ saved' = "invoked"
    /\ pc' = "saving"

\* executePipeline from "Stage 4" on, up to its next await
afterGate(prog) ==
    IF genImagesSetting
    THEN LET reqs == imageRequests(blueprints)
         IN  IF Len(reqs) > 0
             THEN /\ startGenerateImages(reqs, TRUE)
                  /\ progress' = prog \o <<75>>
                  /\ pc' = "images"
                  /\ UNCHANGED <<images, saved>>
             ELSE /\ startSave(prog \o <<75, 85>>, << >>)
                  /\ UNCHANGED <<requests, parallel, imgPc, batchI, tasks, results>>
    ELSE /\ startSave(prog, << >>)
         /\ UNCHANGED <<requests, parallel, imgPc, batchI, tasks, results>>

CancelledMessage == "Generation cancelled by user"

\* the run fails: executePipeline rethrows the error
failWith(err) ==
    /\ pc' = "failed"
    /\ pipeError' = err

\* executePipeline(noteContent, config) is called: stage 1 runs, the
\* summarizer's backend call is issued
ExecutePipeline ==
    /\ pc = "ready"
    /\ \E idx \in PipeIndexes : ragIndex' = idx
    /\ progress' = <<10, 25, 35>>
    /\ summaryPc' = "calling"
    /\ textCalls' = [textCalls EXCEPT !.summary = @ + 1]
    /\ pc' = "summary"
    /\ UNCHANGED <<imgVars, planVars, summary, summaryResponse, estimate, showPreviewModal, genImagesSetting, embedInNote, previewResult,
                   pipeError, images, saved, embedded>>

\* generateSummary resolved: the planner's backend call is issued
SummaryResumes ==
    /\ pc = "summary"
    /\ summaryPc = "returned"
    /\ progress' = progress \o <<50, 60>>
    /\ planPc' = "calling"
    /\ textCalls' = [textCalls EXCEPT !.plan = @ + 1]
    /\ pc' = "plan"
    /\ UNCHANGED <<imgVars, sumVars, length, planResponse, planError, blueprints,
                   showPreviewModal, genImagesSetting, embedInNote, previewResult, pipeError, images,
                   saved, embedded>>

\* generateSummary rejected
SummaryRejects ==
    /\ pc = "summary"
    /\ summaryPc = "threw"
    /\ failWith("ProviderError")
    /\ UNCHANGED <<imgVars, sumVars, planVars, showPreviewModal, genImagesSetting,
                   embedInNote, previewResult, progress, textCalls, images, saved, embedded>>

\* generateBlueprints resolved: progress 70, then the preview gate or stage 4
PlanResumes ==
    /\ pc = "plan"
    /\ planPc = "returned"
    /\ IF showPreviewModal
       THEN /\ progress' = progress \o <<70>>
            /\ pc' = "preview"
            /\ UNCHANGED <<requests, parallel, imgPc, batchI, tasks, results, images, saved>>
       ELSE afterGate(progress \o <<70>>)
    /\ UNCHANGED <<autoRetryCount, parallelWorkers, planVars, sumVars, showPreviewModal,
                   genImagesSetting, embedInNote, previewResult, pipeError, textCalls, embedded>>

\* generateBlueprints rejected
PlanRejects ==
    /\ pc = "plan"
    /\ planPc = "threw"
    /\ failWith(planError)
    /\ UNCHANGED <<imgVars, sumVars, planVars, showPreviewModal, genImagesSetting,
                   embedInNote, previewResult, progress, textCalls, images, saved, embedded>>

\* the user presses "Confirm & Generate" in the preview modal
PreviewConfirm ==
    /\ pc = "preview"
    /\ previewResult' = [confirmed |-> TRUE, regenerate |-> FALSE]
    /\ afterGate(progress)
    /\ UNCHANGED <<autoRetryCount, parallelWorkers, planVars, sumVars, showPreviewModal,
                   genImagesSetting, embedInNote, pipeError, textCalls, embedded>>

\* variant: the rejection is not acted on, the run continues into stage 4
PreviewRegenerate_Ignored ==
    /\ pc = "preview"
    /\ previewResult' = [confirmed |-> FALSE, regenerate |-> TRUE]
    /\ afterGate(progress)
    /\ UNCHANGED <<autoRetryCount, parallelWorkers, planVars, sumVars, showPreviewModal,
                   genImagesSetting, embedInNote, pipeError, textCalls, embedded>>

\* the user presses "Regenerate": showPreviewModal resolves false
PreviewRegenerate ==
    /\ pc = "preview"
    /\ previewResult' = [confirmed |-> FALSE, regenerate |-> TRUE]
    /\ failWith(CancelledMessage)
    /\ UNCHANGED <<imgVars, sumVars, planVars, showPreviewModal, genImagesSetting,
                   embedInNote, progress, textCalls, images, saved, embedded>>

\* variant: the final stage does not wait for generateImages to settle
ImagesResume_NoAwait ==
    /\ pc = "images"
    /\ imgPc \in {"awaiting", "done", "threw"}
    /\ IF imgPc = "threw"
       THEN /\ failWith("ImageError")
            /\ UNCHANGED <<progress, images, saved>>
       ELSE /\ startSave(progress \o <<85>>, results)
            /\ UNCHANGED pipeError
    /\ UNCHANGED <<imgVars, sumVars, planVars, showPreviewModal, genImagesSetting,
                   embedInNote, previewResult, textCalls, embedded>>

\* generateImages settled: progress 85, then the final stage
ImagesResume ==
    /\ pc = "images"
    /\ imgPc \in {"done", "threw"}
    /\ IF imgPc = "threw"
       THEN /\ failWith("ImageError")
            /\ UNCHANGED <<progress, images, saved>>
       ELSE /\ startSave(progress \o <<85>>, results)
            /\ UNCHANGED pipeError
    /\ UNCHANGED <<imgVars, sumVars, planVars, showPreviewModal, genImagesSetting,
                   embedInNote, previewResult, textCalls, embedded>>

\* saveSlides resolved: embedInNote is invoked, or the run completes
SaveReturns ==
    /\ pc = "saving"
    /\ saved' = "done"
    /\ IF embedInNote
       THEN /\ embedded' = "invoked"
            /\ pc' = "embedding"
            /\ UNCHANGED progress
       ELSE /\ progress' = progress \o <<100>>
            /\ pc' = "done"
            /\ UNCHANGED embedded
    /\ UNCHANGED <<imgVars, sumVars, planVars, showPreviewModal, genImagesSetting,
                   embedInNote, previewResult, pipeError, textCalls, images>>

\* saveSlides rejected
SaveFails ==
    /\ pc = "saving"
    /\ saved' = "failed"
    /\ failWith("FileError")
    /\ UNCHANGED <<imgVars, sumVars, planVars, showPreviewModal, genImagesSetting,
                   embedInNote, previewResult, progress, textCalls, images, embedded>>

\* embedInNote resolved: progress 100, the run completes
EmbedReturns ==
    /\ pc = "embedding"
    /\ embedded' = "done"
    /\ progress' = progress \o <<100>>
    /\ pc' = "done"
    /\ UNCHANGED <<imgVars, sumVars, planVars, showPreviewModal, genImagesSetting,
                   embedInNote, previewResult, pipeError, textCalls, images, saved>>

\* embedInNote rejected
EmbedFails ==
    /\ pc = "embedding"
    /\ embedded' = "failed"
    /\ failWith("FileError")
    /\ UNCHANGED <<imgVars, sumVars, planVars, showPreviewModal, genImagesSetting,
                   embedInNote, previewResult, progress, textCalls, images, saved>>

-----------------------------------------------------------------------------
(* MarkdownParser *)

MaxLines == 4           \* longest document explored, in lines
MaxChunkSize == 3       \* chunkSize explored in 1..MaxChunkSize

\* lines explored: empty, whitespace only, and two different texts
LineTexts == {"", " ", "a", "b"}

\* overlap ratios explored, in hundredths (0, 0.5 and 1 are exact doubles)
OverlapRatios == {0, 50, 100}

\* const overlapLines = Math.floor(this.chunkSize * this.overlapRatio)
overlapLines == (chunkSize * overlapRatio) \div 100

\* the loop increment this.chunkSize - overlapLines
step == chunkSize - overlapLines

\* !chunkContent.trim() for the lines of a window joined by '\n'
trimsToEmpty(chunkLines) == \A k \in 1..Len(chunkLines) : chunkLines[k] \in {"", " "}

\* variant: the window end is not clamped to the document
windowEnd_Unclamped(i) == i + chunkSize

\* const endLine = Math.min(i + this.chunkSize, lines.length)
windowEnd(i) == Min(i + chunkSize, Len(lines))

\* lines.slice(i, endLine)
windowLines(i) == SubSeq(lines, i + 1, Min(windowEnd(i), Len(lines)))

\* the DocumentChunk built for the window at i
DocumentChunk(i) ==
    [chunkIndex |-> chunkIndex, startLine |-> i + 1, endLine |-> windowEnd(i),
     content |-> windowLines(i)]

\* parse(content) is called: the locals are initialised
Parse ==
    /\ parsePc = "idle"
    /\ parsePc' = "test"
    /\ parseI' = 0
    /\ chunkIndex' = 0
    /\ chunks' = << >>
    /\ UNCHANGED <<lines, chunkSize, overlapRatio>>

\* the loop test i < lines.length: enter the body, or return chunks
ParseTest ==
    /\ parsePc = "test"
    /\ parsePc' = IF parseI < Len(lines) THEN "body" ELSE "returned"
    /\ UNCHANGED <<lines, chunkSize, overlapRatio, parseI, chunkIndex, chunks>>

\* the loop body and the increment i += this.chunkSize - overlapLines. A
\* chunk list longer than the document only arises when the loop does not
\* advance; it is not grown further.
ParseBody ==
    /\ parsePc = "body"
    /\ IF trimsToEmpty(windowLines(parseI)) \/ Len(chunks) > Len(lines)
       THEN UNCHANGED <<chunks, chunkIndex>>
       ELSE /\ chunks' = Append(chunks, DocumentChunk(parseI))
            /\ chunkIndex' = chunkIndex + 1
    /\ parseI' = parseI + step
    /\ parsePc' = "test"
    /\ UNCHANGED <<lines, chunkSize, overlapRatio>>

-----------------------------------------------------------------------------
(* RAGService *)

MaxChunks == 3          \* longest chunk list indexed
MaxTopK == 3            \* topK explored in 0..MaxTopK

\* A text is modelled by the words that text.replace(/[^\w\s]/g, ' ')
\* .split(/\s+/) yields from its lower-cased form, joined by single spaces.
Words == {"the", "cat", "cats", "dog"}

WordLen(w) == CASE w = "cats" -> 4 [] OTHER -> 3

\* text.length
TextLen(text) ==
    LET RECURSIVE Go(_)
        Go(k) == IF k = 0 THEN 0 ELSE WordLen(text[k]) + Go(k - 1)
    IN  Go(Len(text)) + Max(0, Len(text) - 1)

stopWords ==
    {"a", "an", "and", "are", "as", "at", "be", "by", "for", "from",
     "has", "he", "in", "is", "it", "its", "of", "on", "that", "the",
     "to", "was", "will", "with", "this", "but", "they", "have", "had",
     "what", "when", "where", "who", "which", "why", "how"}

\* tokenize(text)
tokenize(text) == SelectSeq(text, LAMBDA w : w \notin stopWords)

\* word.includes(term), for the words explored
wordIncludes(w, term) == w = term \/ (w = "cats" /\ term = "cat")

\* text.includes(term), term being a single word
includes(text, term) == \E k \in 1..Len(text) : wordIncludes(text[k], term)

DocChunk(content, headers, img, tbl, code) ==
    [content |-> content, headers |-> headers,
     containsImage |-> img, containsTable |-> tbl, containsCode |-> code]

\* chunks explored: a plain one, one of the same tokens with a matching
\* header and an image, one that has no token left after stop-word removal,
\* and one of two tokens with a table
SearchChunks ==
    {DocChunk(<<"cat">>, << >>, FALSE, FALSE, FALSE),
     DocChunk(<<"cat">>, << <<"the", "cat">> >>, TRUE, FALSE, FALSE),
     DocChunk(<<"the">>, << >>, FALSE, FALSE, FALSE),
     DocChunk(<<"dog", "cats">>, << <<"dog">> >>, FALSE, TRUE, FALSE)}

\* queries explored: at most one term is left after tokenize
Queries == {<< >>, <<"the", "cat">>, <<"dog">>, <<"cats">>}

\* A score is NaN, or the rational num / den in units of |idf| of the single
\* query term: every score of one search shares that factor, so comparing
\* num / den compares the scores.
NaN == [nan |-> TRUE, num |-> 0, den |-> 1]
Score(num, den) == [nan |-> FALSE, num |-> num, den |-> den]

\* score *= n / d
scale(sc, n, d) == IF sc.nan THEN NaN ELSE Score(sc.num * n, sc.den * d)

\* sign of Math.log(this.chunks.length / (chunksWithTerm + 1))
idfSign(term, stored) ==
    LET chunksWithTerm == Cardinality({k \in 1..Len(stored) : includes(stored[k].content, term)})
    IN  CASE Len(stored) > chunksWithTerm + 1 -> 1
          [] Len(stored) = chunksWithTerm + 1 -> 0
          [] OTHER -> -1

\* the term-frequency loop of calculateRelevanceScore: tf * idf, where
\* tf = termFreq / chunkTerms.length is 0 / 0 = NaN for a chunk without tokens
termScore(chunk, queryTerms, stored) ==
    IF queryTerms = << >> THEN Score(0, 1)
    ELSE LET term == queryTerms[1]
             chunkTerms == tokenize(chunk.content)
             termFreq == Len(SelectSeq(chunkTerms, LAMBDA t : t = term))
         IN  IF Len(chunkTerms) = 0 THEN NaN
             ELSE Score(termFreq * idfSign(term, stored), Len(chunkTerms))

\* the header loop: score *= 1.5 for every header that includes a query term
headerBoost(sc, chunk, queryTerms) ==
    LET RECURSIVE Go(_)
        Go(k) == IF k = 0 THEN sc
                 ELSE IF queryTerms # << >> /\ includes(chunk.headers[k], queryTerms[1])
                      THEN scale(Go(k - 1), 3, 2)
                      ELSE Go(k - 1)
    IN  Go(Len(chunk.headers))

\* the rich-content boosts: score *= 1.1 each
richBoost(sc, chunk) ==
    LET s1 == IF chunk.containsImage THEN scale(sc, 11, 10) ELSE sc
        s2 == IF chunk.containsTable THEN scale(s1, 11, 10) ELSE s1
    IN  IF chunk.containsCode THEN scale(s2, 11, 10) ELSE s2

\* calculateRelevanceScore(chunk, queryTerms)
calculateRelevanceScore(chunk, queryTerms, stored) ==
    richBoost(headerBoost(termScore(chunk, queryTerms, stored), chunk, queryTerms), chunk)

\* a.score > b.score ; false when either is NaN
scoreGreater(a, b) == ~a.nan /\ ~b.nan /\ a.num * b.den > b.num * a.den

\* a.score >= b.score ; false when either is NaN
scoreGeq(a, b) == ~a.nan /\ ~b.nan /\ a.num * b.den >= b.num * a.den

\* .sort((a, b) => b.score - a.score): the orders the sort can leave the array
\* in, as permutations of the positions. With finite scores the comparator
\* is consistent and the (stable) sort gives the one descending order that
\* keeps ties in place; b.score - a.score is NaN when a score is NaN, the
\* comparator is then not consistent and the order is implementation-defined.
sortOrders(scores) ==
    LET n == Len(scores)
        perms == {f \in [1..n -> 1..n] : \A x, y \in 1..n : x # y => f[x] # f[y]}
    IN  IF \E k \in 1..n : scores[k].nan
        THEN perms
        ELSE {f \in perms : \A x, y \in 1..n :
                 x < y => \/ scoreGreater(scores[f[x]], scores[f[y]])
                          \/ (~scoreGreater(scores[f[y]], scores[f[x]]) /\ f[x] < f[y])}

\* array.slice(0, k)
sliceTo(arr, k) ==
    IF k >= 0 THEN SubSeq(arr, 1, Min(k, Len(arr)))
    ELSE SubSeq(arr, 1, Max(Len(arr) + k, 0))

NullIndex == [isNull |-> TRUE, totalChunks |-> 0, avgChunkSize |-> 0, documentLength |-> 0]

\* indexDocument(chunks)
IndexDocument(cs) ==
    /\ svcChunks' = cs
    /\ LET totalLength ==
               LET RECURSIVE Go(_)
                   Go(k) == IF k = 0 THEN 0 ELSE TextLen(cs[k].content) + Go(k - 1)
               IN  Go(Len(cs))
       IN  svcIndex' = [isNull |-> FALSE, totalChunks |-> Len(cs),
                        avgChunkSize |-> IF Len(cs) > 0
                                         THEN (2 * totalLength + Len(cs)) \div (2 * Len(cs))
                                         ELSE 0,
                        documentLength |-> totalLength]
    /\ searchPc' = "idle"
    /\ query' = << >>
    /\ topK' = 5
    /\ searchResult' = << >>

\* variant: search sorts this.chunks in place
Search_SortsStored(q, k) ==
    /\ query' = q
    /\ topK' = k
    /\ searchPc' = "returned"
    /\ IF Len(svcChunks) = 0
       THEN searchResult' = << >> /\ svcChunks' = svcChunks
       ELSE LET queryTerms == tokenize(q)
                scores == [j \in 1..Len(svcChunks) |->
                             calculateRelevanceScore(svcChunks[j], queryTerms, svcChunks)]
            IN  \E f \in sortOrders(scores) :
                    /\ svcChunks' = [j \in 1..Len(svcChunks) |-> svcChunks[f[j]]]
                    /\ searchResult' = sliceTo(svcChunks', k)
    /\ UNCHANGED svcIndex

\* search(q, k)
Search(q, k) ==
    /\ query' = q
    /\ topK' = k
    /\ searchPc' = "returned"
    /\ IF Len(svcChunks) = 0
       THEN searchResult' = << >>
       ELSE LET queryTerms == tokenize(q)
                scores == [j \in 1..Len(svcChunks) |->
                             calculateRelevanceScore(svcChunks[j], queryTerms, svcChunks)]
            IN  \E f \in sortOrders(scores) :
                    searchResult' = sliceTo([j \in 1..Len(svcChunks) |-> svcChunks[f[j]]], k)
    /\ UNCHANGED <<svcChunks, svcIndex>>

\* clear()
Clear ==
    /\ svcChunks' = << >>
    /\ svcIndex' = NullIndex
    /\ searchPc' = "idle"
    /\ query' = << >>
    /\ topK' = 5
    /\ searchResult' = << >>

-----------------------------------------------------------------------------
(* Paper2SlidesPlugin.generateSlides *)

MaxInvocations == 2     \* generateSlides invocations explored (command, ribbon icon)

Procs == 1..MaxInvocations

\* an invocation that has not been made yet
NoInvocation ==
    [pc |-> "idle", outcome |-> "none", content |-> "unread", quick |-> "none",
     preview |-> "none", flagSet |-> FALSE, progressEmitted |-> FALSE, backendCalled |-> FALSE]

\* the invocations inside executePipeline
inPipeline == {p \in Procs : inv[p].pc \in {"stages", "preview", "final"}}

\* generateSlides from "Start generation" to the first backend await of
\* executePipeline: the flag is set, the progress modal is made and opened,
\* progress 10, 25 and 35 are emitted and the summarizer's call is issued
startGeneration(p, dialog) ==
    /\ isGenerating' = TRUE
    /\ IF showProgressModal
       THEN /\ progressModal' = p
            /\ openProgressModals' = openProgressModals \cup {p}
       ELSE UNCHANGED <<progressModal, openProgressModals>>
    /\ inv' = [inv EXCEPT ![p].pc = "stages", ![p].flagSet = TRUE,
                          ![p].progressEmitted = TRUE, ![p].backendCalled = TRUE,
                          ![p].quick = dialog]

\* generateSlides after executePipeline settled: the modal this.progressModal
\* refers to is closed, the notice is shown, and finally resets the flag
finishGeneration(p, out, dialog) ==
    /\ IF progressModal # 0
       THEN /\ openProgressModals' = openProgressModals \ {progressModal}
            /\ progressModal' = 0
       ELSE UNCHANGED <<progressModal, openProgressModals>>
    /\ isGenerating' = FALSE
    /\ inv' = [inv EXCEPT ![p].pc = "returned", ![p].outcome = out, ![p].preview = dialog]

\* generateSlides() is invoked (command or ribbon icon, any number of times
\* each): the isGenerating and active-view checks, then the await of vault.read
Invoke(p) ==
    /\ inv[p].pc \in {"idle", "returned"}
    /\ IF isGenerating
       THEN inv' = [inv EXCEPT ![p] = [NoInvocation EXCEPT !.pc = "returned", !.outcome = "busy"]]
       ELSE \E view \in BOOLEAN :
               inv' = IF view
                      THEN [inv EXCEPT ![p] = [NoInvocation EXCEPT !.pc = "reading"]]
                      ELSE [inv EXCEPT ![p] = [NoInvocation EXCEPT !.pc = "returned",
                                                                   !.outcome = "noview"]]
    /\ UNCHANGED <<isGenerating, progressModal, openProgressModals, showQuickOptionsModal,
                   showProgressModal, settingsValid>>

\* variant: the empty-note check is missing
ReadReturns_NoEmptyCheck(p, text) ==
    /\ inv[p].pc = "reading"
    /\ inv' = IF ~settingsValid
              THEN [inv EXCEPT ![p].content = text, ![p].pc = "returned", ![p].outcome = "config"]
              ELSE [inv EXCEPT ![p].content = text, ![p].pc = "options",
                               ![p].quick = IF showQuickOptionsModal THEN "open" ELSE "none"]
    /\ UNCHANGED <<isGenerating, progressModal, openProgressModals, showQuickOptionsModal,
                   showProgressModal, settingsValid>>

\* vault.read resolved with text ("blank": nothing left after trim): the
\* empty-note and settings checks, then the await of getQuickOptions
ReadReturns(p, text) ==
    /\ inv[p].pc = "reading"
    /\ inv' = IF text = "blank"
              THEN [inv EXCEPT ![p].content = text, ![p].pc = "returned", ![p].outcome = "empty"]
              ELSE IF ~settingsValid
              THEN [inv EXCEPT ![p].content = text, ![p].pc = "returned", ![p].outcome = "config"]
              ELSE [inv EXCEPT ![p].content = text, ![p].pc = "options",
                               ![p].quick = IF showQuickOptionsModal THEN "open" ELSE "none"]
    /\ UNCHANGED <<isGenerating, progressModal, openProgressModals, showQuickOptionsModal,
                   showProgressModal, settingsValid>>

\* getQuickOptions resolved with the defaults (quick options modal disabled)
QuickDefaults(p) ==
    /\ inv[p].pc = "options"
    /\ inv[p].quick = "none"
    /\ startGeneration(p, "none")
    /\ UNCHANGED <<showQuickOptionsModal, showProgressModal, settingsValid>>

\* the user presses "Generate Slides": the modal closes and onSubmit resolves
\* getQuickOptions with confirmed = true
QuickGenerate(p) ==
    /\ inv[p].pc = "options"
    /\ inv[p].quick = "open"
    /\ startGeneration(p, "submitted")
    /\ UNCHANGED <<showQuickOptionsModal, showProgressModal, settingsValid>>

\* the user presses "Cancel" or dismisses the quick options modal: the modal
\* closes; neither path calls onSubmit, so getQuickOptions stays pending
QuickClose(p) ==
    /\ inv[p].pc = "options"
    /\ inv[p].quick = "open"
    /\ inv' = [inv EXCEPT ![p].quick = "closed"]
    /\ UNCHANGED <<isGenerating, progressModal, openProgressModals, showQuickOptionsModal,
                   showProgressModal, settingsValid>>

\* stages 1 to 3 of executePipeline completed: progress up to 70, then the
\* preview modal is opened, or stage 4 and the file output are started
StagesReturn(p) ==
    /\ inv[p].pc = "stages"
    /\ inv' = IF showPreviewModal
              THEN [inv EXCEPT ![p].pc = "preview", ![p].preview = "open"]
              ELSE [inv EXCEPT ![p].pc = "final"]
    /\ UNCHANGED <<isGenerating, progressModal, openProgressModals, showQuickOptionsModal,
                   showProgressModal, settingsValid>>

\* a stage of executePipeline rejected: the catch and finally of generateSlides
PipelineFails(p) ==
    /\ inv[p].pc \in {"stages", "final"}
    /\ finishGeneration(p, "failed", inv[p].preview)
    /\ UNCHANGED <<showQuickOptionsModal, showProgressModal, settingsValid>>

\* the user presses "Confirm & Generate" in the preview modal
GenPreviewConfirm(p) ==
    /\ inv[p].pc = "preview"
    /\ inv[p].preview = "open"
    /\ inv' = [inv EXCEPT ![p].pc = "final", ![p].preview = "submitted"]
    /\ UNCHANGED <<isGenerating, progressModal, openProgressModals, showQuickOptionsModal,
                   showProgressModal, settingsValid>>

\* the user presses "Regenerate": executePipeline throws the cancellation
GenPreviewRegenerate(p) ==
    /\ inv[p].pc = "preview"
    /\ inv[p].preview = "open"
    /\ finishGeneration(p, "failed", "submitted")
    /\ UNCHANGED <<showQuickOptionsModal, showProgressModal, settingsValid>>

\* the user dismisses the preview modal: onClose does not call onSubmit, so
\* showPreviewModal stays pending
GenPreviewDismiss(p) ==
    /\ inv[p].pc = "preview"
    /\ inv[p].preview = "open"
    /\ inv' = [inv EXCEPT ![p].preview = "closed"]
    /\ UNCHANGED <<isGenerating, progressModal, openProgressModals, showQuickOptionsModal,
                   showProgressModal, settingsValid>>

\* executePipeline resolved: the success path and finally of generateSlides
PipelineReturns(p) ==
    /\ inv[p].pc = "final"
    /\ finishGeneration(p, "success", inv[p].preview)
    /\ UNCHANGED <<showQuickOptionsModal, showProgressModal, settingsValid>>

-----------------------------------------------------------------------------
(* Paper2SlidesPlugin.executeWithRetry *)

MaxRetryArg == 7        \* maxRetries explored in -1..MaxRetryArg

\* the loop test attempt <= maxRetries with attempt = a: the operation is
\* invoked, or the loop ends and the throw after it runs with lastError null
loopTest(a) ==
    IF a <= retryMax
    THEN /\ retryOps' = Append(retryOps, "pending")
         /\ retryPc' = "calling"
         /\ retryResult' = retryResult
    ELSE /\ retryOps' = retryOps
         /\ retryPc' = "threw"
         /\ retryResult' = [kind |-> "error", of |-> retryLastError]

\* executeWithRetry(operation, maxRetries) is called
ExecuteWithRetry ==
    /\ retryPc = "idle"
    /\ retryAttempt' = 0
    /\ loopTest(0)
    /\ UNCHANGED <<retryMax, retryLastError, retrySleeps>>

\* operation() resolved: return await operation()
OperationResolves ==
    /\ retryPc = "calling"
    /\ retryOps' = [retryOps EXCEPT ![Len(retryOps)] = "resolved"]
    /\ retryPc' = "returned"
    /\ retryResult' = [kind |-> "value", of |-> Len(retryOps)]
    /\ UNCHANGED <<retryMax, retryAttempt, retryLastError, retrySleeps>>

\* variant: the backoff is slept after the final attempt as well
OperationRejects_SleepsAtMax ==
    /\ retryPc = "calling"
    /\ retryOps' = [retryOps EXCEPT ![Len(retryOps)] = "rejected"]
    /\ retryLastError' = Len(retryOps)
    /\ retrySleeps' = Append(retrySleeps, Pow2(retryAttempt) * 1000)
    /\ retryPc' = "sleeping"
    /\ retryResult' = retryResult
    /\ UNCHANGED <<retryMax, retryAttempt>>

\* operation() rejected: the catch block, up to the break and the throw after
\* the loop, or up to await this.sleep(delay)
OperationRejects ==
    /\ retryPc = "calling"
    /\ retryOps' = [retryOps EXCEPT ![Len(retryOps)] = "rejected"]
    /\ retryLastError' = Len(retryOps)
    /\ IF retryAttempt = retryMax
       THEN /\ retryPc' = "threw"
            /\ retryResult' = [kind |-> "error", of |-> retryLastError']
            /\ retrySleeps' = retrySleeps
       ELSE /\ retrySleeps' = Append(retrySleeps, Pow2(retryAttempt) * 1000)
            /\ retryPc' = "sleeping"
            /\ retryResult' = retryResult
    /\ UNCHANGED <<retryMax, retryAttempt>>

\* this.sleep(delay) resolved: attempt++ and the loop test
SleepResolves ==
    /\ retryPc = "sleeping"
    /\ retryAttempt' = retryAttempt + 1
    /\ loopTest(retryAttempt + 1)
    /\ UNCHANGED <<retryMax, retryLastError, retrySleeps>>

-----------------------------------------------------------------------------
(* Specifications *)

\* request lists explored, for every length up to MaxRequests: slide numbers
\* ascending, descending, and all equal
Requests ==
    UNION {{[j \in 1..n |-> [slideNumber |-> j]],
            [j \in 1..n |-> [slideNumber |-> n + 1 - j]],
            [j \in 1..n |-> [slideNumber |-> 1]]} : n \in 0..MaxRequests}

PlanSummaries == {[suggestedSlideCount |-> 12, estimatedDuration |-> 18, outlineLen |-> 0]}

ImgIdle ==
    /\ requests = << >>
    /\ parallel = TRUE
    /\ imgPc = "idle"
    /\ batchI = 0
    /\ tasks = << >>
    /\ results = << >>

PlanIdle ==
    /\ planResponse = NoJson
    /\ planPc = "idle"
    /\ planError = ""
    /\ blueprints = << >>

SumIdle ==
    /\ ragIndex = << >>
    /\ summaryPc = "idle"
    /\ summary = NoSummary
    /\ summaryResponse = NoJsonS
    /\ estimate = NoEstimate

PipeIdle ==
    /\ showPreviewModal = FALSE
    /\ genImagesSetting = FALSE
    /\ embedInNote = FALSE
    /\ previewResult = [confirmed |-> FALSE, regenerate |-> FALSE]
    /\ pc = "none"
    /\ pipeError = ""
    /\ progress = << >>
    /\ textCalls = [summary |-> 0, plan |-> 0]
    /\ images = << >>
    /\ saved = "no"
    /\ embedded = "no"

ParseIdle ==
    /\ lines = <<"">>
    /\ chunkSize = 100
    /\ overlapRatio = 10
    /\ parsePc = "idle"
    /\ parseI = 0
    /\ chunkIndex = 0
    /\ chunks = << >>

GenIdle ==
    /\ isGenerating = FALSE
    /\ progressModal = 0
    /\ openProgressModals = {}
    /\ showQuickOptionsModal = TRUE
    /\ showProgressModal = TRUE
    /\ settingsValid = TRUE
    /\ inv = << >>

Unsettled == [kind |-> "none", of |-> 0]

RetryIdle ==
    /\ retryMax = 0
    /\ retryPc = "idle"
    /\ retryAttempt = 0
    /\ retryLastError = 0
    /\ retryOps = << >>
    /\ retrySleeps = << >>
    /\ retryResult = Unsettled

RagIdle ==
    /\ svcChunks = << >>
    /\ svcIndex = NullIndex
    /\ query = << >>
    /\ topK = 5
    /\ searchPc = "idle"
    /\ searchResult = << >>

\* ImageService on its own: generateImages(requests, parallel)
InitImage ==
    /\ autoRetryCount \in 0..MaxAutoRetry
    /\ parallelWorkers \in 1..MaxWorkers
    /\ requests \in Requests
    /\ parallel \in BOOLEAN
    /\ imgPc = "idle"
    /\ batchI = 0
    /\ tasks = << >>
    /\ results = << >>
    /\ length = "medium"
    /\ PlanIdle /\ SumIdle /\ PipeIdle /\ ParseIdle /\ RagIdle /\ GenIdle /\ RetryIdle

NextImage ==
    \/ GenerateImages /\ UNCHANGED <<planVars, sumVars, pipeVars>> /\ UNCHANGED <<docVars, genVars, retryVars>>
    \/ ImageBackendStep /\ UNCHANGED <<planVars, sumVars, pipeVars>> /\ UNCHANGED <<docVars, genVars, retryVars>>
    \/ BatchResumes /\ UNCHANGED <<planVars, sumVars, pipeVars>> /\ UNCHANGED <<docVars, genVars, retryVars>>

SpecImage == InitImage /\ [][NextImage]_vars

\* generateImages(requests, true) for every worker count, its loop step by
\* step; every call and sleep in flight ends, every resumed await runs on
InitWorkers ==
    /\ autoRetryCount = 1
    /\ parallelWorkers \in (0 - MaxWorkers)..MaxWorkers
    /\ requests \in Requests
    /\ parallel = TRUE
    /\ imgPc = "idle"
    /\ batchI = 0
    /\ tasks = << >>
    /\ results = << >>
    /\ length = "medium"
    /\ PlanIdle /\ SumIdle /\ PipeIdle /\ ParseIdle /\ RagIdle /\ GenIdle /\ RetryIdle

NextWorkers ==
    \/ GenerateImages /\ UNCHANGED <<planVars, sumVars, pipeVars>> /\ UNCHANGED <<docVars, genVars, retryVars>>
    \/ ImageBackendStep /\ UNCHANGED <<planVars, sumVars, pipeVars>> /\ UNCHANGED <<docVars, genVars, retryVars>>
    \/ BatchPush /\ UNCHANGED <<planVars, sumVars, pipeVars>> /\ UNCHANGED <<docVars, genVars, retryVars>>
    \/ BatchTest /\ UNCHANGED <<planVars, sumVars, pipeVars>> /\ UNCHANGED <<docVars, genVars, retryVars>>

SpecWorkers == InitWorkers /\ [][NextWorkers]_vars /\ WF_vars(NextWorkers)

\* PlanService on its own: generateBlueprints(summary, config)
InitPlan ==
    /\ autoRetryCount = DefaultMaxRetries
    /\ parallelWorkers = 2
    /\ ImgIdle /\ PipeIdle /\ ParseIdle /\ RagIdle /\ GenIdle /\ RetryIdle
    /\ ragIndex = << >>
    /\ summaryPc = "returned"
    /\ summary \in PlanSummaries
    /\ summaryResponse = NoJsonS
    /\ estimate = NoEstimate
    /\ length \in SlideLengths
    /\ planResponse = NoJson
    /\ planPc = "calling"
    /\ planError = ""
    /\ blueprints = << >>

NextPlan ==
    \/ planPc = "calling" /\ (\E resp \in PlanResponses : PlanBackendReturns(resp))
                           /\ UNCHANGED <<imgVars, sumVars, pipeVars>> /\ UNCHANGED <<docVars, genVars, retryVars>>
    \/ PlanBackendFails /\ UNCHANGED <<imgVars, sumVars, pipeVars>> /\ UNCHANGED <<docVars, genVars, retryVars>>

SpecPlan == InitPlan /\ [][NextPlan]_vars

\* MarkdownParser on its own: new MarkdownParser(chunkSize, overlapRatio).parse(content)
Documents == UNION {[1..n -> LineTexts] : n \in 1..MaxLines}

InitParse ==
    /\ autoRetryCount = DefaultMaxRetries
    /\ parallelWorkers = 2
    /\ length = "medium"
    /\ ImgIdle /\ PlanIdle /\ SumIdle /\ PipeIdle /\ RagIdle /\ GenIdle /\ RetryIdle
    /\ lines \in Documents
    /\ chunkSize \in 1..MaxChunkSize
    /\ overlapRatio \in OverlapRatios
    /\ parsePc = "idle"
    /\ parseI = 0
    /\ chunkIndex = 0
    /\ chunks = << >>

NextParse ==
    \/ Parse /\ UNCHANGED <<imgVars, planVars, sumVars, pipeVars, ragVars, genVars, retryVars>>
    \/ ParseTest /\ UNCHANGED <<imgVars, planVars, sumVars, pipeVars, ragVars, genVars, retryVars>>
    \/ ParseBody /\ UNCHANGED <<imgVars, planVars, sumVars, pipeVars, ragVars, genVars, retryVars>>

SpecParse == InitParse /\ [][NextParse]_vars

\* the loop of parse keeps running while it has not returned
SpecParseFair == SpecParse /\ WF_vars(NextParse)

\* RAGService on its own: indexDocument, search and clear in any order
\* chunk lists explored: different chunks, in every order
ChunkLists ==
    {cs \in SeqsUpTo(SearchChunks, MaxChunks) :
        \A x, y \in 1..Len(cs) : x # y => cs[x] # cs[y]}

InitRag ==
    /\ autoRetryCount = DefaultMaxRetries
    /\ parallelWorkers = 2
    /\ length = "medium"
    /\ ImgIdle /\ PlanIdle /\ SumIdle /\ PipeIdle /\ ParseIdle /\ RagIdle /\ GenIdle /\ RetryIdle

NextRag ==
    \/ (\E cs \in ChunkLists : IndexDocument(cs))
          /\ UNCHANGED <<imgVars, planVars, sumVars, pipeVars, parseVars, genVars, retryVars>>
    \/ (\E q \in Queries, k \in 0..MaxTopK : Search(q, k))
          /\ UNCHANGED <<imgVars, planVars, sumVars, pipeVars, parseVars, genVars, retryVars>>
    \/ Clear /\ UNCHANGED <<imgVars, planVars, sumVars, pipeVars, parseVars, genVars, retryVars>>

SpecRag == InitRag /\ [][NextRag]_vars

\* SummaryService on its own: generateSummary(ragIndex), then estimateSlideCount
MaxIndexChunks == 2     \* longest index explored, in chunks

\* chunk sizes explored, in pieces of content.split(/\s+/) (an empty content
\* yields one piece)
SumIndexes == SeqsUpTo({Chunk(1), Chunk(999), Chunk(1000), Chunk(3000)}, MaxIndexChunks)

SumResponses ==
    {NoJsonS, InvalidJsonS,
     JsonObject(FALSE, 0, FALSE, 0, FALSE, << >>),
     JsonObject(FALSE, 0, TRUE, 7, TRUE, <<Section("Intro", TRUE, << >>), Section("", TRUE, << >>)>>),
     JsonObject(TRUE, 12, TRUE, 18, TRUE, <<NullSection>>),
     JsonObject(TRUE, 12, TRUE, 18, TRUE, <<Section("Intro", TRUE, <<NullSection>>)>>)}
    \cup {JsonObject(TRUE, n, FALSE, 0, TRUE, <<Section("Intro", TRUE, << >>)>>) : n \in SlideCounts}

InitSummary ==
    /\ autoRetryCount = DefaultMaxRetries
    /\ parallelWorkers = 2
    /\ length = "medium"
    /\ ImgIdle /\ PlanIdle /\ PipeIdle /\ ParseIdle /\ RagIdle /\ GenIdle /\ RetryIdle
    /\ ragIndex \in SumIndexes
    /\ summaryPc = "calling"
    /\ summary = NoSummary
    /\ summaryResponse = NoJsonS
    /\ estimate = NoEstimate

NextSummary ==
    \/ summaryPc = "calling" /\ (\E resp \in SumResponses : SummaryBackendReturns(resp))
          /\ UNCHANGED <<imgVars, planVars, pipeVars, docVars, genVars, retryVars>>
    \/ SummaryBackendFails /\ UNCHANGED <<imgVars, planVars, pipeVars, docVars, genVars, retryVars>>
    \/ (\E len \in SlideLengths : EstimateSlideCount(len))
          /\ UNCHANGED <<imgVars, planVars, pipeVars, docVars, genVars, retryVars>>

SpecSummary == InitSummary /\ [][NextSummary]_vars

\* a pipeline run: executePipeline(noteContent, config)
InitPipeline ==
    /\ autoRetryCount \in 0..MaxAutoRetry
    /\ parallelWorkers \in 1..MaxWorkers
    /\ ImgIdle /\ PlanIdle /\ SumIdle /\ ParseIdle /\ RagIdle /\ GenIdle /\ RetryIdle
    /\ length \in PipeLengths
    /\ showPreviewModal \in BOOLEAN
    /\ genImagesSetting \in BOOLEAN
    /\ embedInNote \in BOOLEAN
    /\ previewResult = [confirmed |-> FALSE, regenerate |-> FALSE]
    /\ pc = "ready"
    /\ pipeError = ""
    /\ progress = << >>
    /\ textCalls = [summary |-> 0, plan |-> 0]
    /\ images = << >>
    /\ saved = "no"
    /\ embedded = "no"

NextPipeline ==
    \/ ExecutePipeline /\ UNCHANGED <<docVars, genVars, retryVars>>
    \/ pc = "summary" /\ (\E resp \in PipeSummaryResponses : SummaryBackendReturns(resp))
                      /\ UNCHANGED <<imgVars, planVars, pipeVars>> /\ UNCHANGED <<docVars, genVars, retryVars>>
    \/ pc = "summary" /\ SummaryBackendFails /\ UNCHANGED <<imgVars, planVars, pipeVars>> /\ UNCHANGED <<docVars, genVars, retryVars>>
    \/ SummaryResumes /\ UNCHANGED <<docVars, genVars, retryVars>>
    \/ SummaryRejects /\ UNCHANGED <<docVars, genVars, retryVars>>
    \/ pc = "plan" /\ (\E resp \in PipePlanResponses : PlanBackendReturns(resp))
                   /\ UNCHANGED <<imgVars, sumVars, pipeVars>> /\ UNCHANGED <<docVars, genVars, retryVars>>
    \/ pc = "plan" /\ PlanBackendFails /\ UNCHANGED <<imgVars, sumVars, pipeVars>> /\ UNCHANGED <<docVars, genVars, retryVars>>
    \/ PlanResumes /\ UNCHANGED <<docVars, genVars, retryVars>>
    \/ PlanRejects /\ UNCHANGED <<docVars, genVars, retryVars>>
    \/ PreviewConfirm /\ UNCHANGED <<docVars, genVars, retryVars>>
    \/ PreviewRegenerate /\ UNCHANGED <<docVars, genVars, retryVars>>
    \/ pc = "images" /\ ImageBackendStep /\ UNCHANGED <<planVars, sumVars, pipeVars>> /\ UNCHANGED <<docVars, genVars, retryVars>>
    \/ pc = "images" /\ BatchResumes /\ UNCHANGED <<planVars, sumVars, pipeVars>> /\ UNCHANGED <<docVars, genVars, retryVars>>
    \/ ImagesResume /\ UNCHANGED <<docVars, genVars, retryVars>>
    \/ SaveReturns /\ UNCHANGED <<docVars, genVars, retryVars>>
    \/ SaveFails /\ UNCHANGED <<docVars, genVars, retryVars>>
    \/ EmbedReturns /\ UNCHANGED <<docVars, genVars, retryVars>>
    \/ EmbedFails /\ UNCHANGED <<docVars, genVars, retryVars>>

SpecPipeline == InitPipeline /\ [][NextPipeline]_vars

\* executeWithRetry on its own, over an operation that resolves or rejects
InitRetry ==
    /\ autoRetryCount = DefaultMaxRetries
    /\ parallelWorkers = 2
    /\ length = "medium"
    /\ ImgIdle /\ PlanIdle /\ SumIdle /\ PipeIdle /\ ParseIdle /\ RagIdle /\ GenIdle
    /\ retryMax \in -1..MaxRetryArg
    /\ retryPc = "idle"
    /\ retryAttempt = 0
    /\ retryLastError = 0
    /\ retryOps = << >>
    /\ retrySleeps = << >>
    /\ retryResult = Unsettled

NextRetry ==
    \/ ExecuteWithRetry /\ UNCHANGED <<imgVars, planVars, sumVars, pipeVars, docVars, genVars>>
    \/ OperationResolves /\ UNCHANGED <<imgVars, planVars, sumVars, pipeVars, docVars, genVars>>
    \/ OperationRejects /\ UNCHANGED <<imgVars, planVars, sumVars, pipeVars, docVars, genVars>>
    \/ SleepResolves /\ UNCHANGED <<imgVars, planVars, sumVars, pipeVars, docVars, genVars>>

SpecRetry == InitRetry /\ [][NextRetry]_vars

\* the plugin's entry point: generateSlides() invoked from the command and the
\* ribbon icon, in any interleaving of their awaits
NoteContents == {"blank", "text"}

InitGenerate ==
    /\ autoRetryCount = DefaultMaxRetries
    /\ parallelWorkers = 2
    /\ length = "medium"
    /\ ImgIdle /\ PlanIdle /\ SumIdle /\ ParseIdle /\ RagIdle
    /\ showPreviewModal \in BOOLEAN
    /\ genImagesSetting = FALSE
    /\ embedInNote = FALSE
    /\ previewResult = [confirmed |-> FALSE, regenerate |-> FALSE]
    /\ pc = "none"
    /\ pipeError = ""
    /\ progress = << >>
    /\ textCalls = [summary |-> 0, plan |-> 0]
    /\ images = << >>
    /\ saved = "no"
    /\ embedded = "no"
    /\ isGenerating = FALSE
    /\ progressModal = 0
    /\ openProgressModals = {}
    /\ showQuickOptionsModal \in BOOLEAN
    /\ showProgressModal \in BOOLEAN
    /\ settingsValid \in BOOLEAN
    /\ inv = [p \in Procs |-> NoInvocation]
    /\ RetryIdle

otherVars == <<imgVars, planVars, sumVars, pipeVars, docVars, retryVars>>

\* the steps the plugin and its backends take on their own
GenerateStep(p) ==
    \/ Invoke(p) /\ UNCHANGED otherVars
    \/ (\E text \in NoteContents : ReadReturns(p, text)) /\ UNCHANGED otherVars
    \/ QuickDefaults(p) /\ UNCHANGED otherVars
    \/ StagesReturn(p) /\ UNCHANGED otherVars
    \/ PipelineFails(p) /\ UNCHANGED otherVars
    \/ PipelineReturns(p) /\ UNCHANGED otherVars

\* the user closes the quick options modal, by any means
QuickDialogStep(p) ==
    \/ QuickGenerate(p) /\ UNCHANGED otherVars
    \/ QuickClose(p) /\ UNCHANGED otherVars

\* the user closes the preview modal, by any means
PreviewDialogStep(p) ==
    \/ GenPreviewConfirm(p) /\ UNCHANGED otherVars
    \/ GenPreviewRegenerate(p) /\ UNCHANGED otherVars
    \/ GenPreviewDismiss(p) /\ UNCHANGED otherVars

NextGenerate ==
    \E p \in Procs : GenerateStep(p) \/ QuickDialogStep(p) \/ PreviewDialogStep(p)

SpecGenerate == InitGenerate /\ [][NextGenerate]_vars

\* the backends respond and the user closes each dialog
SpecGenerateFair ==
    /\ SpecGenerate
    /\ \A p \in Procs : /\ WF_vars(GenerateStep(p))
                         /\ WF_vars(QuickDialogStep(p))
                         /\ WF_vars(PreviewDialogStep(p))

-----------------------------------------------------------------------------
(* Properties *)

\* C1: generateWithRetry never throws, whatever the backend does, and every
\* placeholder result (mimeType image/svg+xml) carries retryCount = maxRetries
C1_NeverThrowsPlaceholderAtMax ==
    /\ imgPc # "threw"
    /\ \A j \in DOMAIN tasks :
          /\ tasks[j].st # "rejected"
          /\ (tasks[j].st = "fulfilled" /\ tasks[j].result.mimeType = PlaceholderMime)
                => tasks[j].result.retryCount = maxRetries

\* a request whose every attempt failed has resolved to the placeholder
C1_Witness ==
    \E j \in DOMAIN tasks :
        /\ tasks[j].st = "fulfilled"
        /\ tasks[j].result.mimeType = PlaceholderMime
        /\ tasks[j].calls = maxRetries + 1

\* C2: generateImages returns exactly one result per request, in request
\* order (result k carries the slideNumber of request k), for both values of
\* parallel, whatever fails and in whatever order the calls complete
C2_OneResultPerRequestInOrder ==
    /\ imgPc # "threw"
    /\ imgPc = "done" =>
          /\ Len(results) = Len(requests)
          /\ \A k \in 1..Len(requests) :
                /\ results[k].slideNumber = requests[k].slideNumber
                /\ results[k].mimeType # "none"

\* a parallel run over differing slide numbers finished, the first request
\* having been retried and a later one having degraded to the placeholder
C2_Witness ==
    /\ imgPc = "done"
    /\ parallel
    /\ workers > 1
    /\ Len(requests) >= 2
    /\ requests[1].slideNumber # requests[2].slideNumber
    /\ results[1].retryCount > 0
    /\ results[2].mimeType = PlaceholderMime

\* batch (0-based) of the request at 1-based position j
batchOf(j) == (j - 1) \div workers

\* C3: with parallel=true, a request of a later batch is dispatched only when
\* every request of every earlier batch has resolved, and never more than
\* `workers` requests are in flight
C3_BatchSynchronized ==
    parallel =>
        /\ \A j, k \in DOMAIN tasks :
              (tasks[j].st # "pending" /\ batchOf(k) < batchOf(j)) => tasks[k].st = "fulfilled"
        /\ Cardinality({j \in DOMAIN tasks : tasks[j].st \in {"calling", "sleeping"}}) <= workers

\* a second batch is in flight after a first batch of two in which one
\* request needed a retry
C3_Witness ==
    /\ parallel
    /\ workers > 1
    /\ \E j, k \in DOMAIN tasks :
          /\ batchOf(k) < batchOf(j)
          /\ tasks[j].st = "calling"
          /\ tasks[k].result.retryCount > 0

\* C4: once the caller has rejected the plan at the preview gate, the run has
\* failed with the cancellation error, the image backend was never called and
\* neither saveSlides nor embedInNote was invoked
C4_RejectedPlanNoFurtherWork ==
    previewResult.regenerate =>
        /\ pc = "failed"
        /\ pipeError = CancelledMessage
        /\ imgPc = "idle"
        /\ tasks = << >>
        /\ images = << >>
        /\ saved = "no"
        /\ embedded = "no"

\* the plan was rejected in a run with images enabled and a blueprint that
\* carries an image prompt
C4_Witness ==
    /\ previewResult.regenerate
    /\ genImagesSetting
    /\ Len(imageRequests(blueprints)) > 0

\* C5: a provider failure of the summarize or plan stage is surfaced only
\* after the stage was invoked autoRetryCount + 1 times
C5_StageRetriedBeforeFailure ==
    (pc = "failed" /\ pipeError = "ProviderError") =>
        \/ (summaryPc = "threw" /\ textCalls.summary = autoRetryCount + 1)
        \/ (planPc = "threw" /\ textCalls.plan = autoRetryCount + 1)

\* C6: generateBlueprints never throws on a text the backend returned
C6_MalformedResponseNeverThrows ==
    planPc = "threw" => planError = "ProviderError"

\* C7: a JSON array without any usable entry yields the fallback deck of
\* targetCount slides
C7_NoUsableEntryFullFallback ==
    (/\ planPc = "returned"
     /\ planResponse.kind = "array"
     /\ \A k \in 1..Len(planResponse.items) : ~itemUsable(planResponse.items[k]))
        => Len(blueprints) = calculateTargetCount(summary, length)

\* C8: the first blueprint of every non-empty result has layout title
C8_FirstSlideTitle ==
    (planPc = "returned" /\ Len(blueprints) >= 1) => blueprints[1].layout = "title"

\* C9: in every result of more than one blueprint the last blueprint's
\* layout is not title
C9_LastSlideNotTitle ==
    (planPc = "returned" /\ Len(blueprints) > 1) => blueprints[Len(blueprints)].layout # "title"

\* a parsed deck of several slides whose last entry asked for layout title
C9_Witness ==
    /\ planPc = "returned"
    /\ planResponse.kind = "array"
    /\ Len(blueprints) > 1
    /\ Len(blueprints) = Len(planResponse.items)
    /\ planResponse.items[Len(planResponse.items)].layout = "title"

\* C10: the blueprint at 0-based position i has slideNumber i + 1
C10_SlideNumbersContiguous ==
    planPc = "returned" => \A k \in 1..Len(blueprints) : blueprints[k].slideNumber = k

\* the progress percentages executePipeline passes to updateProgress
Checkpoints == {10, 25, 35, 50, 60, 70, 75, 85, 90, 100}

\* C11: in every run the progress percentages emitted so far are checkpoint
\* values in 0..100, never decrease, and 100 appears only once saveSlides
\* has resolved
C11_ProgressMonotoneCheckpoints ==
    /\ \A k \in 1..Len(progress) : progress[k] \in Checkpoints /\ progress[k] \in 0..100
    /\ \A k \in 1..(Len(progress) - 1) : progress[k] <= progress[k + 1]
    /\ (\E k \in 1..Len(progress) : progress[k] = 100) => saved = "done"

\* a run with the preview gate and images completed and reported 100
C11_Witness ==
    /\ pc = "done"
    /\ showPreviewModal
    /\ genImagesSetting
    /\ Len(images) > 0
    /\ progress[Len(progress)] = 100

\* C12: the stages run in the order index, summarize, plan, gate, images,
\* output: the planner is called only after the summarizer returned over a
\* built index, the gate is consulted only after the planner returned, the
\* image service runs only after the gate let the run pass, and saveSlides is
\* invoked only after generateImages returned or was skipped
C12_StageOrder ==
    /\ summaryPc # "idle" => ragIndex # << >>
    /\ planPc # "idle" => summaryPc = "returned"
    /\ (pc = "preview" \/ previewResult.confirmed \/ previewResult.regenerate)
          => planPc = "returned"
    /\ imgPc # "idle" =>
          /\ planPc = "returned"
          /\ showPreviewModal => previewResult.confirmed
    /\ saved # "no" =>
          /\ planPc = "returned"
          /\ showPreviewModal => previewResult.confirmed
          /\ imgPc \in {"idle", "done"}
          /\ \A j \in DOMAIN tasks : tasks[j].st = "fulfilled"

\* the output was saved in a run that passed the gate and synthesized images
C12_Witness ==
    /\ saved = "done"
    /\ showPreviewModal
    /\ imgPc = "done"
    /\ Len(tasks) > 0

\* C13: the image backend is called only when image generation is enabled and
\* some blueprint carries an image prompt; the image list handed to the
\* output stage then holds one result per such blueprint, with its slide
\* number, and is empty otherwise
C13_OneImagePerPromptBlueprint ==
    LET withPrompt == SelectSeq(blueprints, LAMBDA bp : bp.imagePrompt # "")
    IN  /\ (imgPc # "idle" \/ tasks # << >>) => (genImagesSetting /\ Len(withPrompt) > 0)
        /\ saved # "no" =>
              IF genImagesSetting /\ Len(withPrompt) > 0
              THEN /\ Len(images) = Len(withPrompt)
                   /\ \A k \in 1..Len(images) :
                         /\ images[k].slideNumber = withPrompt[k].slideNumber
                         /\ images[k].mimeType # "none"
              ELSE images = << >>

\* every backend call failed in a run whose deck has a slide without an image
\* prompt and a slide with one
C13_Witness ==
    /\ saved # "no"
    /\ Len(images) > 0
    /\ Len(images) < Len(blueprints)
    /\ \A k \in 1..Len(images) : images[k].mimeType = PlaceholderMime

\* C14: parse returns for every document when chunkSize >= 1 and the overlap
\* ratio lies in [0, 1], also when the step chunkSize - overlapLines is <= 0
C14_ParseTerminates == <>(parsePc = "returned")

\* C15: when the step is >= 1, every emitted chunk has
\* 1 <= startLine <= endLine <= number of lines, and startLine increases
\* strictly along the chunk list
C15_ChunkBounds ==
    step >= 1 =>
        /\ \A k \in 1..Len(chunks) :
              /\ 1 <= chunks[k].startLine
              /\ chunks[k].startLine <= chunks[k].endLine
              /\ chunks[k].endLine <= Len(lines)
        /\ \A k \in 1..(Len(chunks) - 1) : chunks[k].startLine < chunks[k + 1].startLine

\* parse returned several overlapping chunks, the last window cut short by
\* the end of the document
C15_Witness ==
    /\ parsePc = "returned"
    /\ overlapLines > 0
    /\ Len(chunks) >= 2
    /\ chunks[Len(chunks)].endLine - chunks[Len(chunks)].startLine + 1 < chunkSize

RECURSIVE concatContents(_)
concatContents(cs) ==
    IF cs = << >> THEN << >> ELSE Head(cs).content \o concatContents(Tail(cs))

\* C16: with overlapRatio = 0 the chunk contents, concatenated in order,
\* are the original line sequence
C16_ZeroOverlapReconstructs ==
    (parsePc = "returned" /\ overlapRatio = 0) => concatContents(chunks) = lines

\* C17: a document of exactly 2 * chunkSize - overlapLines non-blank lines
\* (step >= 1) gives exactly 2 chunks, the last overlapLines lines of the
\* first being the first overlapLines lines of the second
C17_TwoChunksShareOverlap ==
    (/\ parsePc = "returned"
     /\ step >= 1
     /\ Len(lines) = 2 * chunkSize - overlapLines
     /\ \A k \in 1..Len(lines) : lines[k] \notin {"", " "})
        => /\ Len(chunks) = 2
           /\ SubSeq(chunks[1].content, Len(chunks[1].content) - overlapLines + 1,
                     Len(chunks[1].content))
                = SubSeq(chunks[2].content, 1, overlapLines)

\* C18: search returns at most topK chunks, all of them stored chunks, in
\* order of non-increasing relevance score, also when a stored chunk has no
\* token left after stop-word removal, and returns the empty list when no
\* chunk is stored
C18_SearchTopKSorted ==
    searchPc = "returned" =>
        LET queryTerms == tokenize(query)
            sc(c) == calculateRelevanceScore(c, queryTerms, svcChunks)
        IN  /\ Len(searchResult) <= topK
            /\ \A k \in 1..Len(searchResult) :
                  \E j \in 1..Len(svcChunks) : searchResult[k] = svcChunks[j]
            /\ \A k \in 1..(Len(searchResult) - 1) :
                  scoreGeq(sc(searchResult[k]), sc(searchResult[k + 1]))
            /\ Len(svcChunks) = 0 => searchResult = << >>

\* C19: whenever parseAIResponse ends in generateFallbackSummary, for every
\* index, the summary has suggestedSlideCount in 5..25 and
\* estimatedDuration = ceil(suggestedSlideCount * 1.5)
C19_FallbackCountClamped ==
    (summaryPc = "returned" /\ parseAIResponseTry(summaryResponse, ragIndex).threw) =>
        /\ summary.suggestedSlideCount \in 5..25
        /\ 2 * summary.estimatedDuration \in
              {3 * summary.suggestedSlideCount, 3 * summary.suggestedSlideCount + 1}

\* the fallback was taken over the empty index after a response whose
\* outline made validation throw
C19_Witness ==
    /\ summaryPc = "returned"
    /\ summaryResponse.kind = "object"
    /\ parseAIResponseTry(summaryResponse, ragIndex).threw
    /\ ragIndex = << >>

C21_TargetCountEqualsEstimate ==
    estimate.length # "none" => estimate.count = calculateTargetCount(summary, estimate.length)

\* the two agree on a count above the medium bucket that the backend
\* returned unclamped
C21_Witness ==
    /\ estimate.length = "medium"
    /\ summaryResponse.kind = "object"
    /\ summaryResponse.sscIsNumber
    /\ summary.suggestedSlideCount \in 16..25
    /\ estimate.count = 15

\* C22: an invocation whose note is empty or whitespace only returns at the
\* empty-note check: it never sets isGenerating, emits no progress event and
\* calls no backend.
C22_BlankInputFailsFast ==
    \A p \in DOMAIN inv :
        inv[p].content = "blank" =>
            /\ inv[p].pc = "returned"
            /\ inv[p].outcome = "empty"
            /\ ~inv[p].flagSet
            /\ ~inv[p].progressEmitted
            /\ ~inv[p].backendCalled

C22_Witness ==
    \E p \in DOMAIN inv :
        inv[p].content = "blank" /\ inv[p].outcome = "empty" /\ settingsValid

\* C27: at most one invocation of generateSlides is inside executePipeline at
\* any time.
C27_OnePipelineAtATime == Cardinality(inPipeline) <= 1

\* C28: every invocation of generateSlides eventually returns with
\* isGenerating false and no progress modal open, when backends respond and the
\* user closes each dialog by any means.
C28_EveryInvocationReturns ==
    \A p \in Procs :
        (inv[p].pc \notin {"idle", "returned"})
            ~> (inv[p].pc = "returned" /\ ~isGenerating /\ openProgressModals = {})

autoAssigned == {k \in 1..Len(blueprints) : k = Len(blueprints) \/ blueprints[k].layout = "content"}

\* C24 (as stated): every auto-assigned slide has image-focus if it carries
\* images and at most 2 text lines, otherwise two-column if it has tables or
\* exactly 2 text lines, otherwise quote if it has exactly 1 text line longer
\* than 50 characters, whether or not it carries code, otherwise content.
C24_AutoLayoutAsStated ==
    planPc = "returned" =>
        \A k \in autoAssigned :
            LET c == blueprints[k].content
            IN  blueprints[k].layout =
                    IF c.images > 0 /\ Len(c.text) <= 2 THEN "image-focus"
                    ELSE IF c.tables > 0 \/ Len(c.text) = 2 THEN "two-column"
                    ELSE IF Len(c.text) = 1 /\ c.text[1].len > 50 THEN "quote"
                    ELSE "content"

\* C24 (amended): as above, except that a slide carrying code that is neither
\* image-focus nor two-column gets content, also when its single text line is
\* longer than 50 characters.
C24_AutoLayoutCodeBeforeQuote ==
    planPc = "returned" =>
        \A k \in autoAssigned :
            LET c == blueprints[k].content
            IN  blueprints[k].layout =
                    IF c.images > 0 /\ Len(c.text) <= 2 THEN "image-focus"
                    ELSE IF c.tables > 0 \/ Len(c.text) = 2 THEN "two-column"
                    ELSE IF c.code > 0 THEN "content"
                    ELSE IF Len(c.text) = 1 /\ c.text[1].len > 50 THEN "quote"
                    ELSE "content"

\* a plan was returned with a quote slide, an image-focus slide of one image
\* and one text line, and a code slide whose single line is longer than 50
C24_Witness ==
    /\ planPc = "returned"
    /\ Len(blueprints) = 3
    /\ blueprints[3].content.code > 0
    /\ Len(blueprints[3].content.text) = 1
    /\ blueprints[3].content.text[1].len > 50
    /\ blueprints[3].layout = "content"
    /\ \E k \in 1..2 : /\ blueprints[k].layout = "image-focus"
                        /\ blueprints[k].content.images = 1
                        /\ Len(blueprints[k].content.text) = 1

C26_AtMostConfiguredRetries ==
    \A j \in 1..Len(tasks) :
        /\ tasks[j].calls <= autoRetryCount + 1
        /\ tasks[j].st = "sleeping" =>
              /\ tasks[j].retryCount < autoRetryCount
              /\ tasks[j].sleepMs = Pow2(tasks[j].retryCount) * 1000
        /\ (tasks[j].st = "fulfilled" /\ tasks[j].result.mimeType # PlaceholderMime) =>
              tasks[j].result.retryCount = tasks[j].calls - 1

\* C29: generateImages(requests, true) returns for every request list and every
\* configured worker count, positive, zero or negative, when every backend call
\* returns or fails.
C29_GenerateImagesTerminates == <>(imgPc = "done")

\* a boost applies to chunk c under the query terms: a header includes a query
\* term, or the chunk contains an image, a table or code
boosted(c, queryTerms) ==
    \/ c.containsImage \/ c.containsTable \/ c.containsCode
    \/ \E k \in 1..Len(c.headers) : queryTerms # << >> /\ includes(c.headers[k], queryTerms[1])

\* C30: in every search, of two stored chunks with the same tokens of which
\* one is boosted and the other is not, the boosted one scores at least as high
\* as the other, also when the term occurs in every chunk and idf is negative.
C30_BoostsNeverLower ==
    searchPc = "returned" =>
        LET queryTerms == tokenize(query)
            sc(c) == calculateRelevanceScore(c, queryTerms, svcChunks)
        IN  \A x, y \in 1..Len(svcChunks) :
                (/\ tokenize(svcChunks[x].content) = tokenize(svcChunks[y].content)
                 /\ ~boosted(svcChunks[x], queryTerms)
                 /\ boosted(svcChunks[y], queryTerms))
                    => scoreGeq(sc(svcChunks[y]), sc(svcChunks[x]))

====
